---- MODULE Spec2Model ----
(***************************************************************************)
(* Model of the asynchronous command server of local_content_mcp_server:   *)
(* src/src/server.cpp (Server, Connection), src/src/handler.cpp            *)
(* (parse_msg), src/src/main.cpp (startup, login handler),                 *)
(* src/src/storage.cpp (Redis), src/src/plugin.cpp (load/unload) and       *)
(* src/plugins/echo_plugin.cpp.                                            *)
(*                                                                         *)
(* Text is modelled as a sequence of tokens.  A token is one lexical unit  *)
(* of the wire format: a brace, a comma, a whole "key":value member, a     *)
(* blank, a newline, or a run of non-JSON text.  The JSON decoder and the  *)
(* serializer work on these tokens the way nlohmann::json works on bytes.  *)
(***************************************************************************)
EXTENDS Integers, Sequences, FiniteSets, TLC

\* ------------------------------------------------------------------ bounds
MaxConns == 2          \* connections that peers open
MaxLines == 2          \* lines sent by all peers together
MaxWrites == 2         \* transport writes that one message is split into at most
MaxRaw == 5            \* tokens of a text handed to parse_msg directly

\* ------------------------------------------------------------------ tokens
NL == "\n"
SP == " "
Junk == "?"            \* a byte read from released storage

Members == {"cmd:login", "cmd:echo", "cmd:nope", "cmd:1", "token:x", "msg:hi"}

KeyOf(t) == IF t = "token:x" THEN "token" ELSE IF t = "msg:hi" THEN "msg" ELSE "cmd"

\* the value of a "cmd" member is a JSON string, except in "cmd":1
IsString(t) == t # "cmd:1"

StrOf(t) ==
    CASE t = "cmd:login" -> "login"
      [] t = "cmd:echo" -> "echo"
      [] t = "cmd:nope" -> "nope"
      [] t = "token:x" -> "x"
      [] t = "msg:hi" -> "hi"
      [] OTHER -> "1"

\* the lines a peer may send (without the terminating newline)
Lines ==
    { <<"{", "cmd:login", ",", "token:x", "}">>,
      <<"{", "msg:hi", ",", "cmd:echo", "}">>,
      <<"{", "cmd:nope", "}">>,
      <<"{", "}">>,
      <<"not json">>,
      <<"{", "cmd:login">>,
      <<"}">> }

\* the lines peers send when two of them are connected
SharedLines ==
    { <<"{", "cmd:login", ",", "token:x", "}">>,
      <<"{", "msg:hi", ",", "cmd:echo", "}">>,
      <<"not json">> }

\* ------------------------------------------------------------------ JSON
Fail == [kind |-> "fail"]

StripWs(s) == SelectSeq(s, LAMBDA t : t # SP /\ t # NL)

\* the text between the braces is a comma separated list of members
IsMemberList(w) ==
    \/ Len(w) = 0
    \/ /\ Len(w) % 2 = 1
       /\ \A i \in 1..Len(w) : IF i % 2 = 1 THEN w[i] \in Members ELSE w[i] = ","

\* a later member with the same key replaces an earlier one
ObjectOf(w) ==
    LET keys == {KeyOf(w[i]) : i \in {j \in 1..Len(w) : j % 2 = 1}}
        last(k) == CHOOSE i \in 1..Len(w) :
                       /\ i % 2 = 1 /\ KeyOf(w[i]) = k
                       /\ \A j \in 1..Len(w) : (j % 2 = 1 /\ KeyOf(w[j]) = k) => j <= i
    IN [kind |-> "object", m |-> [k \in keys |-> w[last(k)]]]

\* json::parse: the whole text must be one JSON value, blanks and newlines
\* around tokens are skipped, anything after the value is a parse error
JsonParse(raw) ==
    LET w == StripWs(raw) IN
    IF w = <<"1">> THEN [kind |-> "number"]
    ELSE IF /\ Len(w) >= 2 /\ w[1] = "{" /\ w[Len(w)] = "}"
            /\ IsMemberList(SubSeq(w, 2, Len(w) - 1))
         THEN ObjectOf(SubSeq(w, 2, Len(w) - 1))
         ELSE Fail

KeyOrder == <<"cmd", "msg", "token">>

RECURSIVE Join(_)
Join(ms) ==
    IF Len(ms) = 0 THEN <<>>
    ELSE IF Len(ms) = 1 THEN <<ms[1]>>
    ELSE <<ms[1], ",">> \o Join(Tail(ms))

\* a serialization that leaves the cmd member out
JsonDump_fields(js) ==
    LET ks == SelectSeq(KeyOrder, LAMBDA k : k \in DOMAIN js.m /\ k # "cmd")
    IN <<"{">> \o Join([i \in 1..Len(ks) |-> js.m[ks[i]]]) \o <<"}">>

\* json::dump of an object: members in key order, no blanks
JsonDump(js) ==
    LET ks == SelectSeq(KeyOrder, LAMBDA k : k \in DOMAIN js.m)
    IN <<"{">> \o Join([i \in 1..Len(ks) |-> js.m[ks[i]]]) \o <<"}">>

\* a decoder that takes the cmd member whatever its type
parse_msg_anycmd(raw) ==
    LET js == JsonParse(raw) IN
    IF js.kind = "object" /\ "cmd" \in DOMAIN js.m
    THEN [ok |-> TRUE, cmd |-> StrOf(js.m["cmd"]), payload |-> JsonDump(js)]
    ELSE [ok |-> FALSE, cmd |-> "", payload |-> <<>>]

\* handler::parse_msg: [ok, cmd, payload]
parse_msg(raw) ==
    LET js == JsonParse(raw) IN
    IF /\ js.kind = "object"
       /\ "cmd" \in DOMAIN js.m
       /\ IsString(js.m["cmd"])
    THEN [ok |-> TRUE, cmd |-> StrOf(js.m["cmd"]), payload |-> JsonDump(js)]
    ELSE [ok |-> FALSE, cmd |-> "", payload |-> <<>>]

\* ------------------------------------------------------------------ state
Conns == 1..MaxConns

\* the candidate modules of load_plugins
Files == <<"./plugins/echo_plugin.so">>

\* the fixed response texts of Connection::do_read and of the login handler
ErrMalformed == <<"error: malformed", NL>>
ErrUnknown == <<"error: unknown command", NL>>
LoginOk == <<"login: ok", NL>>
LoginFail == <<"login: fail", NL>>

VARIABLES
    file,        \* resources/config.json as the process finds it
    j_,          \* Config::j_: the configuration document, <<>> before load
    acceptor_,   \* the acceptor of the Server and the endpoint it is bound to
    main_pc,     \* position of main()
    handlers_,   \* Server::handlers_: command name -> handler
    regs,        \* history: the add_handler calls made so far, in order
    plugins,     \* the vector load_plugins returned
    dl,          \* the dynamic loader: per candidate file "unopened", "open" or "closed"
    redis_,      \* the Redis singleton: "uninit" or "connected"
    store,       \* keys the Session Store holds
    accepting,   \* an async_accept is outstanding
    ready,       \* io_context: completion handlers ready to run, in order
    sock,        \* Connection::socket_: "none", "open" or "closed"
    buffer_,     \* Connection::buffer_
    reading,     \* an async_read_some of the connection waits in the reactor
    wq,          \* write operations of the socket waiting in the reactor
    peer,        \* the remote end: "none", "open", "closing", "gone" or "aborted"
    wire,        \* tokens the peer sent that the server has not read yet
    out,         \* tokens the peer has received
    sentLines,   \* history: the lines the peer sent
    sentTail,    \* history: what the peer sent after its last newline
    log          \* history: one record per successful read completion

vars == <<file, j_, acceptor_, main_pc, handlers_, regs, plugins, dl, redis_, store, accepting,
          ready, sock, buffer_, reading, wq, peer, wire, out, sentLines, sentTail, log>>

cfgVars == <<file, j_, acceptor_>>
startupVars == <<handlers_, regs, plugins, dl>>
storeVars == <<redis_, store>>
connVars == <<sock, buffer_, reading, wq, out, log>>
peerVars == <<peer, wire, sentLines, sentTail>>
ioVars == <<accepting, ready>>

\* no configuration file looked at yet
NoFile == [kind |-> "none", j |-> <<>>]

\* no acceptor constructed yet
NoAcceptor == [state |-> "none", host |-> "", port |-> 0]

Init ==
    /\ main_pc = "load_config"
    /\ file = NoFile
    /\ j_ = <<>>
    /\ acceptor_ = NoAcceptor
    /\ handlers_ = <<>>
    /\ regs = <<>>
    /\ plugins = <<>>
    /\ dl = [i \in 1..Len(Files) |-> "unopened"]
    /\ redis_ = "uninit"
    /\ store = {}
    /\ accepting = FALSE
    /\ ready = <<>>
    /\ sock = [c \in Conns |-> "none"]
    /\ buffer_ = [c \in Conns |-> <<>>]
    /\ reading = [c \in Conns |-> FALSE]
    /\ wq = [c \in Conns |-> <<>>]
    /\ peer = [c \in Conns |-> "none"]
    /\ wire = [c \in Conns |-> <<>>]
    /\ out = [c \in Conns |-> <<>>]
    /\ sentLines = [c \in Conns |-> <<>>]
    /\ sentTail = [c \in Conns |-> <<>>]
    /\ log = [c \in Conns |-> <<>>]

\* ------------------------------------------------------------------ startup
\* a registration that keeps the handler already registered under the name
add_handler_keep(h, cmd, fn) ==
    [x \in DOMAIN h \cup {cmd} |-> IF x \in DOMAIN h THEN h[x] ELSE fn]

\* Server::add_handler: handlers_[cmd] = fn
add_handler(h, cmd, fn) ==
    [x \in DOMAIN h \cup {cmd} |-> IF x = cmd THEN fn ELSE h[x]]

\* the text of a configured host: an IPv4 address, or a name that is none
HostTexts == {"0.0.0.0", "nowhere"}

Digits == {"0", "1", "2", "3", "4", "5", "6", "7", "8", "9"}

DigitVal(d) ==
    CASE d = "0" -> 0 [] d = "1" -> 1 [] d = "2" -> 2 [] d = "3" -> 3 [] d = "4" -> 4
      [] d = "5" -> 5 [] d = "6" -> 6 [] d = "7" -> 7 [] d = "8" -> 8 [] OTHER -> 9

\* the text of a configured port, one character a token
PortTexts ==
    { <<"8", "0">>, <<"0">>, <<"6", "5", "5", "3", "5">>, <<"6", "5", "5", "3", "6">>,
      <<"7", "0", "0", "0", "0">>, <<"-", "1">>, <<"x">>, <<"8", "0", "x">> }

\* the JSON objects with string members host and port, either of them
\* possibly missing
ObjectsOver(hs, ps) ==
    {[k \in {"host", "port"} |-> IF k = "host" THEN <<h>> ELSE p] : h \in hs, p \in ps}
       \cup {[k \in {"host"} |-> <<h>>] : h \in hs}
       \cup {[k \in {"port"} |-> p] : p \in ps}
       \cup {<<>>}

\* what resources/config.json may be: missing or unreadable, not JSON, or
\* a JSON object
FilesOver(hs, ps) ==
    {[kind |-> "unopenable", j |-> <<>>], [kind |-> "not_json", j |-> <<>>]}
       \cup {[kind |-> "json", j |-> o] : o \in ObjectsOver(hs, ps)}

ConfigFiles == FilesOver(HostTexts, PortTexts)

\* the configuration files met while connections are served: one that
\* cannot be opened, and one with a host and a port that bind
ServedFiles ==
    {f \in FilesOver({"0.0.0.0"}, {<<"8", "0">>}) :
        f.kind = "unopenable" \/ (f.kind = "json" /\ DOMAIN f.j = {"host", "port"})}

\* Config::load: throws when the file cannot be opened, and operator>>
\* throws when it is not JSON
Config_load(f) == IF f.kind = "json" THEN [kind |-> "ok", j |-> f.j] ELSE Fail

\* Config::get: j_.at(key).get<std::string>(), at() throws for a missing key
Config_get(j, key) == IF key \in DOMAIN j THEN [kind |-> "ok", s |-> j[key]] ELSE Fail

RECURSIVE Decimal(_)
Decimal(ds) ==
    IF ds = <<>> THEN 0
    ELSE 10 * Decimal(SubSeq(ds, 1, Len(ds) - 1)) + DigitVal(ds[Len(ds)])

\* std::stoi: an optional sign and the longest run of digits after it, what
\* follows the digits ignored; throws when there is no digit
stoi(t) ==
    LET neg == t # <<>> /\ t[1] = "-"
        body == IF neg THEN Tail(t) ELSE t
        k == Cardinality({i \in 1..Len(body) : \A j \in 1..i : body[j] \in Digits})
        v == Decimal(SubSeq(body, 1, k))
    IN IF k = 0 THEN Fail ELSE [kind |-> "ok", v |-> IF neg THEN 0 - v ELSE v]

\* static_cast<unsigned short>(int)
to_unsigned_short(v) == v % 65536

\* a make_address that takes any text for an address
make_address_any(h) == [kind |-> "ok", a |-> h]

\* boost::asio::ip::make_address: throws for a text that is no address
make_address(h) == IF h = <<"0.0.0.0">> THEN [kind |-> "ok", a |-> h] ELSE Fail

\* Config::instance().load("resources/config.json"), the file one of fs
LoadConfigFrom(fs) ==
    /\ main_pc = "load_config"
    /\ \E f \in fs :
          /\ file' = f
          /\ IF Config_load(f) = Fail
             THEN main_pc' = "exited_fail" /\ UNCHANGED j_
             ELSE main_pc' = "construct" /\ j_' = Config_load(f).j
    /\ UNCHANGED <<acceptor_, startupVars, storeVars, connVars, peerVars, ioVars>>

LoadConfig == LoadConfigFrom(ServedFiles)

LoadAnyConfig == LoadConfigFrom(ConfigFiles)

\* main.cpp:15-17 and Server::Server: the arguments are read from the
\* configuration and converted, each of which may throw; the acceptor is
\* opened, bound and made to listen, which throws when the endpoint cannot
\* be reserved; then the first accept is armed
Construct ==
    /\ main_pc = "construct"
    /\ LET host == Config_get(j_, "host")
           port == Config_get(j_, "port")
           num == IF port = Fail THEN Fail ELSE stoi(port.s)
           addr == IF host = Fail THEN Fail ELSE make_address(host.s)
       IN IF num = Fail \/ addr = Fail
          THEN /\ main_pc' = "exited_fail"
               /\ UNCHANGED <<acceptor_, accepting>>
          ELSE \E ok \in BOOLEAN :
                  /\ main_pc' = IF ok THEN "register" ELSE "exited_fail"
                  /\ acceptor_' = [state |-> IF ok THEN "bound" ELSE "bind_failed",
                                   host |-> addr.a[1], port |-> to_unsigned_short(num.v)]
                  /\ accepting' = ok
    /\ UNCHANGED <<file, j_, startupVars, storeVars, connVars, peerVars, ready>>

\* main: srv.add_handler("login", ...)
RegisterBuiltins ==
    /\ main_pc = "register"
    /\ handlers_' = add_handler(handlers_, "login", "login_builtin")
    /\ regs' = Append(regs, <<"login", "login_builtin">>)
    /\ main_pc' = "load_plugins"
    /\ UNCHANGED <<cfgVars, plugins, dl, storeVars, connVars, peerVars, ioVars>>

\* what the file ./plugins/echo_plugin.so turns out to be: it cannot be
\* opened, it has no create_plugin, or it is a plugin whose init registers
\* its handler under the name given, or whose init throws.  "stop" is a
\* plugin that registers under echo a handler which stops the io_context it
\* reaches through Connection::io().
ModuleFiles == {"noopen", "nosym", "echo", "login", "throws", "stop"}

\* the name a plugin's init registers under, and the handler it registers
PluginCmd(f) == IF f = "stop" THEN "echo" ELSE f

PluginFn(f) == IF f = "stop" THEN "stop_fn" ELSE "echo_fn"

\* the handlers whose code lives in a plugin module
PluginFns == {"echo_fn", "stop_fn"}

\* a loader that leaves a module without create_plugin open
RECURSIVE load_from_leak(_, _, _, _)
load_from_leak(i, kind, res, d) ==
    IF i > Len(Files) THEN [res |-> res, dl |-> d]
    ELSE IF kind[i] = "noopen" THEN load_from_leak(i + 1, kind, res, d)
    ELSE IF kind[i] = "nosym" THEN load_from_leak(i + 1, kind, res, [d EXCEPT ![i] = "open"])
    ELSE load_from_leak(i + 1, kind,
                        Append(res, [path |-> Files[i], handle |-> i, create |-> kind[i]]),
                        [d EXCEPT ![i] = "open"])

\* the loop of load_plugins from the i-th file on: dlopen fails: continue;
\* dlsym fails: dlclose and continue; otherwise push_back({file, h, fn}).
\* handle is the index of the module the record's handle refers to.
RECURSIVE load_from(_, _, _, _)
load_from(i, kind, res, d) ==
    IF i > Len(Files) THEN [res |-> res, dl |-> d]
    ELSE IF kind[i] = "noopen" THEN load_from(i + 1, kind, res, d)
    ELSE IF kind[i] = "nosym" THEN load_from(i + 1, kind, res, [d EXCEPT ![i] = "closed"])
    ELSE load_from(i + 1, kind,
                   Append(res, [path |-> Files[i], handle |-> i, create |-> kind[i]]),
                   [d EXCEPT ![i] = "open"])

\* load_plugins, with kind saying what each candidate file turns out to be
load_plugins(kind) == load_from(1, kind, <<>>, dl)

LoadPlugins ==
    /\ main_pc = "load_plugins"
    /\ \E kind \in [1..Len(Files) -> ModuleFiles] :
          LET r == load_plugins(kind)
          IN /\ plugins' = r.res
             /\ dl' = r.dl
    /\ main_pc' = "init_plugins"
    /\ UNCHANGED <<cfgVars, handlers_, regs, storeVars, connVars, peerVars, ioVars>>

\* a startup that enters the accept loop first and lets the plugin register
\* its handler later, while connections are served
InitPlugins_late ==
    /\ \/ /\ main_pc = "init_plugins"
          /\ main_pc' = "run"
          /\ UNCHANGED <<handlers_, regs>>
       \/ /\ main_pc = "run"
          /\ plugins # <<>> /\ Len(regs) = 1
          /\ handlers_' = add_handler(handlers_, "echo", "echo_fn")
          /\ regs' = Append(regs, <<"echo", "echo_fn">>)
          /\ UNCHANGED main_pc
    /\ UNCHANGED <<cfgVars, plugins, dl, storeVars, connVars, peerVars, ioVars>>

\* main: for (auto& p : plugins) { p.create()->init(srv); } and then
\* srv.run().  EchoPlugin::init calls add_handler(name, echo handler).
InitPlugins ==
    /\ main_pc = "init_plugins"
    /\ IF plugins = <<>>
       THEN /\ main_pc' = "run"
            /\ UNCHANGED <<handlers_, regs>>
       ELSE IF plugins[1].create = "throws"
       THEN /\ main_pc' = "exited_fail"
            /\ UNCHANGED <<handlers_, regs>>
       ELSE /\ main_pc' = "run"
            /\ handlers_' = add_handler(handlers_, PluginCmd(plugins[1].create),
                                        PluginFn(plugins[1].create))
            /\ regs' = Append(regs, <<PluginCmd(plugins[1].create), PluginFn(plugins[1].create)>>)
    /\ UNCHANGED <<cfgVars, plugins, dl, storeVars, connVars, peerVars, ioVars>>

\* ------------------------------------------------------------------ peers
\* The server learns of a peer only through the completions of its own
\* accepts, reads and writes, all of which run inside io_.run(): what a peer
\* did earlier waits in the kernel.  So peers act once main is in run(), and
\* a peer hands its lines to the transport when it connects; when each token
\* reaches the server is up to the transport (ReactorRead).
Listening == main_pc = "run"

RECURSIVE Flatten(_)
Flatten(ls) == IF ls = <<>> THEN <<>> ELSE Head(ls) \o <<NL>> \o Flatten(Tail(ls))

LineSeqs(L, n) == UNION {[1..k -> L] : k \in 0..n}

\* what the peer c may send: a peer alone on the server sends up to MaxLines
\* lines of any kind; a second peer connects only next to a peer that sent
\* at most one of SharedLines, and sends at most one of them itself
Inputs(c) ==
    IF c = 1 THEN LineSeqs(Lines, MaxLines)
    ELSE IF sentLines[1] \in LineSeqs(SharedLines, 1)
         THEN LineSeqs(SharedLines, 1)
         ELSE {}

\* how the peer c behaves after its last line: an "open" peer stays; a
\* "closing" peer closes its sending side and goes on receiving; a "gone"
\* peer has closed altogether, and every write to it fails.  Either of the
\* last two shows the server the end of the stream once it has read all.
Modes(c) == IF c = 1 THEN {"open", "closing", "gone"} ELSE {"open"}

\* what a peer may send after its last newline: a peer that closes may
\* leave a text it never ends, which counts as one of its MaxLines lines
Tails(m, ls) == IF m = "open" \/ Len(ls) >= MaxLines THEN {<<>>} ELSE {<<>>, <<"}">>}

\* the lines sent where every behaviour is followed to its end
LiveLines == { <<"{", "msg:hi", ",", "cmd:echo", "}">> }

LiveInputs(c) == {ls \in Inputs(c) : \A i \in 1..Len(ls) : ls[i] \in LiveLines}

\* a peer connects and writes its lines, one of ins, each with its newline,
\* and possibly some text with no newline before it closes
PeerConnectFrom(c, ins) ==
    /\ Listening
    /\ peer[c] = "none"
    /\ \A d \in Conns : d < c => peer[d] # "none"
    /\ \E ls \in ins, m \in Modes(c) : \E tl \in Tails(m, ls) :
          /\ wire' = [wire EXCEPT ![c] = Flatten(ls) \o tl]
          /\ sentLines' = [sentLines EXCEPT ![c] = ls]
          /\ sentTail' = [sentTail EXCEPT ![c] = tl]
          /\ peer' = [peer EXCEPT ![c] = m]
    /\ UNCHANGED <<cfgVars, main_pc, startupVars, storeVars, connVars, ioVars>>

PeerConnect(c) == PeerConnectFrom(c, Inputs(c))

LivePeerConnect(c) == PeerConnectFrom(c, LiveInputs(c))

\* ------------------------------------------------------------------ io_context
\* an io_context that goes on running completions after main has unloaded
Running_after == main_pc \in {"run", "unloaded"}

Running == main_pc = "run"

\* a completion handler that captures the Connection as a plain pointer
\* and holds no owner of it
Entry_raw(op, c, ec, n, msg, w) ==
    [op |-> op, c |-> c, self |-> 0, ec |-> ec, n |-> n, msg |-> msg, w |-> w]

\* an entry of the ready queue: n is the match position of a read, or the
\* tokens of msg written so far; w counts the transport writes made for msg.
\* self is the shared owner the lambda captured ([self], [self, msg]); the
\* lambda of do_accept captures the Server only.
Entry(op, c, ec, n, msg, w) ==
    [op |-> op, c |-> c, self |-> IF op = "accept" THEN 0 ELSE c, ec |-> ec, n |-> n,
     msg |-> msg, w |-> w]

HasNL(buf) == \E i \in 1..Len(buf) : buf[i] = NL

\* async_read_until's match: the position just after the first newline
FirstNL(buf) == CHOOSE i \in 1..Len(buf) : buf[i] = NL /\ \A j \in 1..(i - 1) : buf[j] # NL

\* a do_read that starts a read of the socket also when the newline that
\* completes the read_until is buffered already
do_read_eager(c, buf, state, rq) ==
    IF HasNL(buf)
    THEN [ready |-> Append(rq, Entry("read", c, "ok", FirstNL(buf), <<>>, 0)),
          reading |-> state = "open"]
    ELSE IF state = "closed"
    THEN [ready |-> Append(rq, Entry("read", c, "bad_descriptor", 0, <<>>, 0)), reading |-> FALSE]
    ELSE [ready |-> rq, reading |-> TRUE]

\* Connection::do_read: async_read_until(socket_, buffer_, '\n', ...).  With a
\* newline already buffered the operation completes without touching the
\* socket; otherwise it reads from the socket, which fails at once on a closed
\* one.  Gives the ready queue and the reading flag after the call.
do_read(c, buf, state, rq) ==
    IF HasNL(buf)
    THEN [ready |-> Append(rq, Entry("read", c, "ok", FirstNL(buf), <<>>, 0)), reading |-> FALSE]
    ELSE IF state = "closed"
    THEN [ready |-> Append(rq, Entry("read", c, "bad_descriptor", 0, <<>>, 0)), reading |-> FALSE]
    ELSE [ready |-> rq, reading |-> TRUE]

\* Connection::send: boost::asio::post of the lambda that holds a copy of msg
send(c, msg, rq) == Append(rq, Entry("post", c, "ok", 0, msg, 0))

\* a close that leaves the read waiting in the reactor where it is
close_keep_read(c, rq) ==
    IF sock[c] # "open"
    THEN [sock |-> sock, reading |-> reading, wq |-> wq, ready |-> rq]
    ELSE [sock |-> [sock EXCEPT ![c] = "closed"],
          reading |-> reading,
          wq |-> [wq EXCEPT ![c] = <<>>],
          ready |-> rq \o [i \in 1..Len(wq[c]) |->
                             Entry("wrote", c, "aborted", wq[c][i].off, wq[c][i].msg, wq[c][i].w)]]

\* a close that leaves the socket as it is
close_none(c, rq) == [sock |-> sock, reading |-> reading, wq |-> wq, ready |-> rq]

\* Connection::close: shutdown and close with the errors ignored.  Closing
\* cancels the operations of the socket that wait in the reactor: each
\* completes with operation_aborted.  Gives sock, reading, wq and ready.
close(c, rq) ==
    IF sock[c] # "open"
    THEN [sock |-> sock, reading |-> reading, wq |-> wq, ready |-> rq]
    ELSE [sock |-> [sock EXCEPT ![c] = "closed"],
          reading |-> [reading EXCEPT ![c] = FALSE],
          wq |-> [wq EXCEPT ![c] = <<>>],
          ready |-> (IF reading[c] THEN Append(rq, Entry("read", c, "aborted", 0, <<>>, 0)) ELSE rq)
                    \o [i \in 1..Len(wq[c]) |-> Entry("wrote", c, "aborted", wq[c][i].off, wq[c][i].msg, wq[c][i].w)]]

\* What a transport write of k tokens at offset off of msg puts on the wire.
\* boost::asio::buffer(msg) points into the copy of msg held by the posted
\* lambda, which is destroyed when the lambda returns: a write performed
\* later reads released storage, which may still hold the text or may hold
\* anything else (Junk: any byte at all, a byte of another text included).
View(msg, off, k, stale) ==
    IF ~stale THEN {SubSeq(msg, off + 1, off + k)}
    ELSE {SubSeq(msg, off + 1, off + k), [i \in 1..k |-> Junk]}

\* the peer receives what the transport carries
Deliver(c, v) == [out EXCEPT ![c] = @ \o v]

\* the socket performs one send of the rest of msg: it takes some of the
\* tokens, or fails when the peer is gone
Transfer(c, msg, off, w, stale, rq, q) ==
    LET sizes == IF w + 1 < MaxWrites THEN 1..(Len(msg) - off) ELSE {Len(msg) - off}
    IN IF peer[c] = "gone"
       THEN {[ready |-> Append(rq, Entry("wrote", c, "error", off, msg, w)), wq |-> q,
              out |-> out]}
       ELSE {[ready |-> Append(rq, Entry("wrote", c, "ok", off + kv[1], msg, w + 1)), wq |-> q,
              out |-> Deliver(c, kv[2])] :
                kv \in UNION {{<<k, v>> : v \in View(msg, off, k, stale)} : k \in sizes}}

\* a write that does not look at the state of the socket
async_write_some_blind(c, msg, off, w, stale, rq) == Transfer(c, msg, off, w, stale, rq, wq)

\* async_write_some of the rest of msg: fails at once on a closed socket,
\* waits behind the writes already waiting in the reactor, and otherwise is
\* tried at once and waits in the reactor if the socket takes nothing
async_write_some(c, msg, off, w, stale, rq) ==
    IF sock[c] # "open"
    THEN {[ready |-> Append(rq, Entry("wrote", c, "bad_descriptor", off, msg, w)), wq |-> wq,
           out |-> out]}
    ELSE {[ready |-> rq,
           wq |-> [wq EXCEPT ![c] = Append(@, [self |-> c, msg |-> msg, off |-> off, w |-> w])],
           out |-> out]}
         \cup (IF wq[c] = <<>> THEN Transfer(c, msg, off, w, stale, rq, wq) ELSE {})

\* the errors an async_accept completes with: the peer gave up before the
\* accept (ECONNABORTED), or the process has no descriptor left (EMFILE)
AcceptErrors == {"connection_aborted", "no_descriptors"}

\* the reactor completes the outstanding accept with the next peer of the
\* listen queue: with its socket, or with an error, and then that
\* connection attempt is lost
ReactorAccept ==
    /\ Running
    /\ accepting
    /\ \E c \in Conns :
          /\ peer[c] \in {"open", "closing", "gone"} /\ sock[c] = "none"
          /\ \A d \in Conns : d < c => (sock[d] # "none" \/ peer[d] = "aborted")
          /\ \/ /\ ready' = Append(ready, Entry("accept", c, "ok", 0, <<>>, 0))
                /\ UNCHANGED peer
             \/ /\ \E ec \in AcceptErrors :
                      ready' = Append(ready, Entry("accept", c, ec, 0, <<>>, 0))
                /\ peer' = [peer EXCEPT ![c] = "aborted"]
    /\ accepting' = FALSE
    /\ UNCHANGED <<cfgVars, main_pc, startupVars, storeVars, connVars, wire, sentLines, sentTail>>

\* the reactor performs the waiting read of a connection: some of the tokens
\* on the wire enter buffer_, and the read_until completes once a newline is
\* buffered
ReactorRead(c) ==
    /\ Running
    /\ reading[c]
    /\ wire[c] # <<>>
    /\ \E k \in 1..Len(wire[c]) :
          LET buf == buffer_[c] \o SubSeq(wire[c], 1, k)
              r == do_read(c, buf, "open", ready)
          IN /\ buffer_' = [buffer_ EXCEPT ![c] = buf]
             /\ wire' = [wire EXCEPT ![c] = SubSeq(@, k + 1, Len(@))]
             /\ ready' = r.ready
             /\ reading' = [reading EXCEPT ![c] = r.reading]
    /\ UNCHANGED <<cfgVars, main_pc, startupVars, storeVars, sock, wq, out, log, peer, sentLines,
                   sentTail, accepting>>

\* the waiting read meets the end of the stream
ReactorReadEof(c) ==
    /\ Running
    /\ reading[c]
    /\ wire[c] = <<>>
    /\ peer[c] \in {"closing", "gone"}
    /\ ready' = Append(ready, Entry("read", c, "eof", 0, <<>>, 0))
    /\ reading' = [reading EXCEPT ![c] = FALSE]
    /\ UNCHANGED <<cfgVars, main_pc, startupVars, storeVars, sock, buffer_, wq, out, log, peerVars,
                   accepting>>

\* the reactor performs the first waiting write of a socket; the lambda
\* that owned the text has returned by now
ReactorWrite(c) ==
    /\ Running
    /\ wq[c] # <<>>
    /\ \E r \in Transfer(c, Head(wq[c]).msg, Head(wq[c]).off, Head(wq[c]).w, TRUE, ready,
                          [wq EXCEPT ![c] = Tail(@)]) :
          /\ ready' = r.ready
          /\ wq' = r.wq
          /\ out' = r.out
    /\ UNCHANGED <<cfgVars, main_pc, startupVars, storeVars, sock, buffer_, reading, log, peerVars,
                   accepting>>

\* ------------------------------------------------------------------ handlers
\* Redis::instance() constructs the singleton on first use, and its
\* constructor throws when redisConnect fails.  Redis::set is true when the
\* store answers the SET with the status OK.  Gives the possible results of
\* Redis::instance().set(key, "valid").
RedisSet(key) ==
    (IF redis_ = "uninit"
     THEN {[thrown |-> TRUE, ok |-> FALSE, redis |-> "uninit", store |-> store]}
     ELSE {})
    \cup {[thrown |-> FALSE, ok |-> TRUE, redis |-> "connected", store |-> store \cup {key}],
          [thrown |-> FALSE, ok |-> FALSE, redis |-> "connected", store |-> store]}

\* what a handler's call of Redis::set returned, for the record of the call
SetResult(r) == IF r.thrown THEN "none" ELSE IF r.ok THEN "true" ELSE "false"

\* a login handler that answers login: ok whatever set returned
LoginHandler_ok(payload) ==
    {[thrown |-> r.thrown, redis |-> r.redis, store |-> r.store, set |-> SetResult(r),
      replies |-> IF r.thrown THEN <<>> ELSE <<LoginOk>>] :
        r \in RedisSet(<<"sess:">> \o payload)}

\* the login handler of main: the token is the payload as it is
LoginHandler(payload) ==
    {[thrown |-> r.thrown, redis |-> r.redis, store |-> r.store, set |-> SetResult(r),
      replies |-> IF r.thrown THEN <<>> ELSE IF r.ok THEN <<LoginOk>> ELSE <<LoginFail>>] :
        r \in RedisSet(<<"sess:">> \o payload)}

\* the handler EchoPlugin::init registers
EchoHandler(payload) ==
    {[thrown |-> FALSE, redis |-> redis_, store |-> store, set |-> "none",
      replies |-> <<(<<"echo: ">> \o payload \o <<NL>>)>>]}

\* a plugin handler that calls conn.io().stop() and sends nothing: run()
\* returns once the completion that invoked it has ended
StopHandler(payload) ==
    {[thrown |-> FALSE, redis |-> redis_, store |-> store, set |-> "none", replies |-> <<>>]}

Invoke(fn, payload) ==
    IF fn = "login_builtin" THEN LoginHandler(payload)
    ELSE IF fn = "stop_fn" THEN StopHandler(payload)
    ELSE EchoHandler(payload)

\* the text Connection::do_read hands to parse_msg when a read_until
\* completed with n: buffers_to_string(buffer_.data())
DecoderInput(buf, n) == buf

\* a consume that leaves the newline of the line in the buffer
Consume_short(buf, n) == SubSeq(buf, n, Len(buf))

\* buffer_.consume(n)
Consume(buf, n) == SubSeq(buf, n + 1, Len(buf))

\* the decode and dispatch of Connection::do_read's completion: the handler
\* invoked, or "none", and what it did
Dispatch(msg) ==
    LET p == parse_msg(msg) IN
    IF ~p.ok
    THEN {[fn |-> "none", payload |-> <<>>, thrown |-> FALSE, redis |-> redis_, store |-> store,
           set |-> "none", replies |-> <<ErrMalformed>>]}
    ELSE IF p.cmd \in DOMAIN handlers_
    THEN {[fn |-> handlers_[p.cmd], payload |-> p.payload, thrown |-> o.thrown,
           redis |-> o.redis, store |-> o.store, set |-> o.set, replies |-> o.replies] :
              o \in Invoke(handlers_[p.cmd], p.payload)}
    ELSE {[fn |-> "none", payload |-> <<>>, thrown |-> FALSE, redis |-> redis_, store |-> store,
           set |-> "none", replies |-> <<ErrUnknown>>]}

RECURSIVE SendAll(_, _, _)
SendAll(c, msgs, rq) ==
    IF msgs = <<>> THEN rq ELSE SendAll(c, Tail(msgs), send(c, Head(msgs), rq))

\* a read completion that arms the next read only after a handler ran
AfterDispatch_handled(c, o, rest, rq) ==
    IF o.fn = "none"
    THEN [ready |-> SendAll(c, o.replies, rq), reading |-> FALSE]
    ELSE do_read(c, rest, sock[c], SendAll(c, o.replies, rq))

\* the end of a successful read completion: what the handler or the error
\* branch sent has been posted, and self->do_read() arms the next read
AfterDispatch(c, o, rest, rq) == do_read(c, rest, sock[c], SendAll(c, o.replies, rq))

\* the completion of Server::do_accept: a Connection is made and started on
\* success, and the next accept is armed in either case
\* an accept completion that arms the next accept after a success only
AcceptDone_fatal ==
    /\ Running
    /\ ready # <<>>
    /\ Head(ready).op = "accept"
    /\ LET e == Head(ready) IN
       IF e.ec = "ok"
       THEN LET r == do_read(e.c, <<>>, "open", Tail(ready))
            IN /\ sock' = [sock EXCEPT ![e.c] = "open"]
               /\ ready' = r.ready
               /\ reading' = [reading EXCEPT ![e.c] = r.reading]
       ELSE /\ ready' = Tail(ready)
            /\ UNCHANGED <<sock, reading>>
    /\ accepting' = (Head(ready).ec = "ok")
    /\ UNCHANGED <<cfgVars, main_pc, startupVars, storeVars, buffer_, wq, out, log, peerVars>>

AcceptDone ==
    /\ Running
    /\ ready # <<>>
    /\ Head(ready).op = "accept"
    /\ LET e == Head(ready) IN
       IF e.ec = "ok"
       THEN LET r == do_read(e.c, <<>>, "open", Tail(ready))
            IN /\ sock' = [sock EXCEPT ![e.c] = "open"]
               /\ ready' = r.ready
               /\ reading' = [reading EXCEPT ![e.c] = r.reading]
       ELSE /\ ready' = Tail(ready)
            /\ UNCHANGED <<sock, reading>>
    /\ accepting' = TRUE
    /\ UNCHANGED <<cfgVars, main_pc, startupVars, storeVars, buffer_, wq, out, log, peerVars>>

\* the completion of Connection::do_read.  An exception of the handler
\* leaves io_.run() and is caught by main, which returns EXIT_FAILURE.  With
\* the io_context stopped by the handler, run() returns after the completion.
ReadDone ==
    /\ Running
    /\ ready # <<>>
    /\ Head(ready).op = "read"
    /\ LET e == Head(ready)
           c == e.c
       IN IF e.ec = "ok"
          THEN \E o \in Dispatch(DecoderInput(buffer_[c], e.n)) :
                 LET rest == Consume(buffer_[c], e.n)
                     r == AfterDispatch(c, o, rest, Tail(ready))
                 IN /\ buffer_' = [buffer_ EXCEPT ![c] = rest]
                    /\ log' = [log EXCEPT ![c] = Append(@,
                                  [msg |-> DecoderInput(buffer_[c], e.n), fn |-> o.fn,
                                   payload |-> o.payload, replies |-> o.replies,
                                   thrown |-> o.thrown, set |-> o.set])]
                    /\ redis_' = o.redis
                    /\ store' = o.store
                    /\ IF o.thrown
                       THEN /\ main_pc' = "exited_fail"
                            /\ ready' = Tail(ready)
                            /\ UNCHANGED reading
                       ELSE /\ ready' = r.ready
                            /\ reading' = [reading EXCEPT ![c] = r.reading]
                            /\ main_pc' = IF o.fn = "stop_fn" THEN "unload" ELSE main_pc
                    /\ UNCHANGED <<sock, wq>>
          ELSE LET r == close(c, Tail(ready))
               IN /\ sock' = r.sock
                  /\ reading' = r.reading
                  /\ wq' = r.wq
                  /\ ready' = r.ready
                  /\ UNCHANGED <<main_pc, storeVars, buffer_, log>>
    /\ UNCHANGED <<cfgVars, startupVars, out, peerVars, accepting>>

\* the lambda Connection::send posted: async_write(socket_, buffer(msg), ...)
\* while the lambda's copy of msg is alive
PostedSend ==
    /\ Running
    /\ ready # <<>>
    /\ Head(ready).op = "post"
    /\ \E r \in async_write_some(Head(ready).c, Head(ready).msg, 0, 0, FALSE, Tail(ready)) :
          /\ ready' = r.ready
          /\ wq' = r.wq
          /\ out' = r.out
    /\ UNCHANGED <<cfgVars, main_pc, startupVars, storeVars, sock, buffer_, reading, log, peerVars,
                   accepting>>

\* one async_write_some of an async_write completed: an error or the end of
\* the text ends the async_write and runs the lambda of Connection::send,
\* which closes the connection on an error; otherwise the rest is written
WriteSomeDone ==
    /\ Running
    /\ ready # <<>>
    /\ Head(ready).op = "wrote"
    /\ LET e == Head(ready) IN
       IF e.ec # "ok"
       THEN LET r == close(e.c, Tail(ready))
            IN /\ sock' = r.sock
               /\ reading' = r.reading
               /\ wq' = r.wq
               /\ ready' = r.ready
               /\ UNCHANGED out
       ELSE IF e.n = Len(e.msg)
       THEN /\ ready' = Tail(ready)
            /\ UNCHANGED <<sock, reading, wq, out>>
       ELSE \E r \in async_write_some(e.c, e.msg, e.n, e.w, TRUE, Tail(ready)) :
               /\ ready' = r.ready
               /\ wq' = r.wq
               /\ out' = r.out
               /\ UNCHANGED <<sock, reading>>
    /\ UNCHANGED <<cfgVars, main_pc, startupVars, storeVars, buffer_, log, peerVars, accepting>>

\* ------------------------------------------------------------------ shutdown
\* unload_plugins: dlclose of the handle of every record
unload_plugins(ps, d) ==
    [i \in DOMAIN d |-> IF \E k \in DOMAIN ps : ps[k].handle = i THEN "closed" ELSE d[i]]

\* main after srv.run() has returned: unload_plugins(plugins); the records
\* and the registry are not touched
UnloadPlugins ==
    /\ main_pc = "unload"
    /\ dl' = unload_plugins(plugins, dl)
    /\ main_pc' = "unloaded"
    /\ UNCHANGED <<cfgVars, handlers_, regs, plugins, storeVars, connVars, peerVars, ioVars>>

\* main returns: plugins, srv and io are destroyed in this order.  The Server
\* takes its registry with it; the io_context destroys the handlers it still
\* holds without running them, and with them the Connections and sockets.
MainReturn ==
    /\ main_pc = "unloaded"
    /\ main_pc' = "exited_ok"
    /\ handlers_' = <<>>
    /\ accepting' = FALSE
    /\ ready' = <<>>
    /\ reading' = [c \in Conns |-> FALSE]
    /\ wq' = [c \in Conns |-> <<>>]
    /\ sock' = [c \in Conns |-> IF sock[c] = "none" THEN "none" ELSE "closed"]
    /\ acceptor_' = [acceptor_ EXCEPT !.state = "closed"]
    /\ UNCHANGED <<file, j_, regs, plugins, dl, storeVars, buffer_, out, log, peerVars>>

\* ------------------------------------------------------------------ parse_msg alone
\* the tokens of the texts parse_msg is called with directly, as the tests
\* of handler_test.cpp call it
RawTokens == {"{", "}", ",", SP, "1", "not json", "cmd:login", "cmd:1", "msg:hi"}

RawTexts == UNION {[1..k -> RawTokens] : k \in 0..MaxRaw}

\* the fixture holds a raw text; nothing else of the server is set up
ParseInit ==
    /\ main_pc = "parse_test"
    /\ file = NoFile
    /\ j_ = <<>>
    /\ acceptor_ = NoAcceptor
    /\ handlers_ = <<>>
    /\ regs = <<>>
    /\ plugins = <<>>
    /\ dl = [i \in 1..Len(Files) |-> "unopened"]
    /\ redis_ = "uninit"
    /\ store = {}
    /\ accepting = FALSE
    /\ ready = <<>>
    /\ sock = [c \in Conns |-> "none"]
    /\ \E raw \in RawTexts : buffer_ = [c \in Conns |-> IF c = 1 THEN raw ELSE <<>>]
    /\ reading = [c \in Conns |-> FALSE]
    /\ wq = [c \in Conns |-> <<>>]
    /\ peer = [c \in Conns |-> "none"]
    /\ wire = [c \in Conns |-> <<>>]
    /\ out = [c \in Conns |-> <<>>]
    /\ sentLines = [c \in Conns |-> <<>>]
    /\ sentTail = [c \in Conns |-> <<>>]
    /\ log = [c \in Conns |-> <<>>]

\* the test body: handler::parse_msg(raw, cmd, payload), result recorded
ParseStep ==
    /\ main_pc = "parse_test"
    /\ log' = [log EXCEPT ![1] = <<[msg |-> buffer_[1], result |-> parse_msg(buffer_[1])]>>]
    /\ main_pc' = "parse_done"
    /\ UNCHANGED <<cfgVars, startupVars, storeVars, sock, buffer_, reading, wq, out, peerVars, ioVars>>

ParseNext == ParseStep

ParseSpec == ParseInit /\ [][ParseNext]_vars

\* ------------------------------------------------------------------ startup alone
\* main up to srv.run(), with every configuration file
ConfigNext ==
    \/ LoadAnyConfig
    \/ Construct
    \/ RegisterBuiltins
    \/ LoadPlugins
    \/ InitPlugins

ConfigSpec == Init /\ [][ConfigNext]_vars

\* ------------------------------------------------------------------ specification
Next ==
    \/ LoadConfig
    \/ Construct
    \/ RegisterBuiltins
    \/ LoadPlugins
    \/ InitPlugins
    \/ \E c \in Conns : PeerConnect(c)
    \/ ReactorAccept
    \/ \E c \in Conns : ReactorRead(c)
    \/ \E c \in Conns : ReactorReadEof(c)
    \/ \E c \in Conns : ReactorWrite(c)
    \/ AcceptDone
    \/ ReadDone
    \/ PostedSend
    \/ WriteSomeDone
    \/ UnloadPlugins
    \/ MainReturn

Spec == Init /\ [][Next]_vars

\* the server with peers that send LiveLines only
LiveNext ==
    \/ LoadConfig
    \/ Construct
    \/ RegisterBuiltins
    \/ LoadPlugins
    \/ InitPlugins
    \/ \E c \in Conns : LivePeerConnect(c)
    \/ ReactorAccept
    \/ \E c \in Conns : ReactorRead(c)
    \/ \E c \in Conns : ReactorReadEof(c)
    \/ \E c \in Conns : ReactorWrite(c)
    \/ AcceptDone
    \/ ReadDone
    \/ PostedSend
    \/ WriteSomeDone
    \/ UnloadPlugins
    \/ MainReturn

\* io_.run() goes on running the completion at the head of the ready queue
\* for as long as there is one, and main goes on once run() has returned
FairSpec ==
    /\ Init /\ [][LiveNext]_vars
    /\ WF_vars(AcceptDone \/ ReadDone \/ PostedSend \/ WriteSomeDone)
    /\ WF_vars(UnloadPlugins)
    /\ WF_vars(MainReturn)

\* ------------------------------------------------------------------ properties
\* the i-th line the peer of c sent, with its newline
Line(c, i) == sentLines[c][i] \o <<NL>>

\* what decoding that line alone gives
Decoded(c, i) == parse_msg(Line(c, i))

Registered(c, i) == Decoded(c, i).ok /\ Decoded(c, i).cmd \in DOMAIN handlers_

IsPrefix(s, t) == Len(s) <= Len(t) /\ SubSeq(t, 1, Len(s)) = s

\* the read completions of c that have run, in order
Handled(c) == 1..Len(log[c])

\* C1: every line that is a JSON object with a registered cmd has its
\* handler invoked, once, with the decoded envelope of that line as payload:
\* the i-th read completion of a connection is the one of its i-th line, and
\* it invoked the handler registered under the cmd of that line.
C1_RegisteredLineDispatched ==
    \A c \in Conns :
       /\ Len(log[c]) <= Len(sentLines[c])
       /\ \A i \in Handled(c) :
             Registered(c, i) =>
                /\ log[c][i].fn = handlers_[Decoded(c, i).cmd]
                /\ log[c][i].payload = Decoded(c, i).payload

\* C2: the text handed to the decoder at the i-th read completion is the
\* i-th line up to its newline, with no token of a following line, and there
\* are no more decode attempts than lines.
C2_OneMessagePerLine ==
    \A c \in Conns :
       /\ Len(log[c]) <= Len(sentLines[c])
       /\ \A i \in Handled(c) : log[c][i].msg = Line(c, i)

\* C3: a line that is not JSON, or has no string cmd, is answered with
\* exactly the malformed error, and no handler is invoked for it.
C3_MalformedLineAnswered ==
    \A c \in Conns : \A i \in Handled(c) :
       ~Decoded(c, i).ok =>
          /\ log[c][i].replies = <<ErrMalformed>>
          /\ log[c][i].fn = "none"

\* C4: a well-formed line whose cmd is not registered is answered with
\* exactly the unknown-command error, no handler is invoked, and the read
\* cycle goes on.
C4_UnknownCommandAnswered ==
    \A c \in Conns : \A i \in Handled(c) :
       (Decoded(c, i).ok /\ ~Registered(c, i)) =>
          /\ log[c][i].replies = <<ErrUnknown>>
          /\ log[c][i].fn = "none"

\* a read of c is outstanding: it waits in the reactor, or its completion is
\* in the ready queue
ReadEntries(c) == {i \in 1..Len(ready) : ready[i].op = "read" /\ ready[i].c = c}

ReadArmed(c) == reading[c] \/ ReadEntries(c) # {}

ReadsOutstanding(c) == (IF reading[c] THEN 1 ELSE 0) + Cardinality(ReadEntries(c))

\* the read completion of c that this step ran ended in a protocol error
\* (malformed line, missing cmd, unknown command)
ProtocolErrorStep(c) ==
    /\ Len(log'[c]) = Len(log[c]) + 1
    /\ log'[c][Len(log'[c])].replies \in {<<ErrMalformed>>, <<ErrUnknown>>}

\* a protocol error leaves an open socket open, with the error reply posted
\* and a read armed again, and the server running
C5_Step ==
    \A c \in Conns :
       (ProtocolErrorStep(c) /\ sock[c] = "open") =>
          /\ sock'[c] = "open"
          /\ ReadArmed(c)'
          /\ \E i \in 1..Len(ready') :
                /\ ready'[i].op = "post" /\ ready'[i].c = c
                /\ <<ready'[i].msg>> = log'[c][Len(log'[c])].replies
          /\ main_pc' = "run"

\* the last line of a connection, with nothing sent after its newline, when
\* it is well-formed and registered and follows a line answered with a
\* protocol error, is dispatched to its handler
C5_LaterLine ==
    \A c \in Conns : \A i \in Handled(c) :
       (/\ i >= 2 /\ i = Len(sentLines[c]) /\ sentTail[c] = <<>>
        /\ log[c][i - 1].replies \in {<<ErrMalformed>>, <<ErrUnknown>>}
        /\ Registered(c, i)) =>
          /\ log[c][i].fn = handlers_[Decoded(c, i).cmd]
          /\ log[c][i].payload = Decoded(c, i).payload

\* an open connection that waits for input with nothing left to read has
\* taken every line sent to it through a read completion
C5_NoLineLost ==
    \A c \in Conns :
       (sock[c] = "open" /\ reading[c] /\ wire[c] = <<>>) => Len(log[c]) = Len(sentLines[c])

C6_InOrderOneAtATime ==
    \A c \in Conns :
       /\ Len(log[c]) <= Len(sentLines[c])
       /\ \A i \in Handled(c) : IsPrefix(Line(c, i), log[c][i].msg)
       /\ ReadsOutstanding(c) <= 1

\* two different lines of one connection have each had their handler
\* invoked, the first before the second
C6_Witness ==
    \E c \in Conns :
       /\ Len(log[c]) = 2
       /\ sentLines[c][1] # sentLines[c][2]
       /\ log[c][1].fn # "none" /\ log[c][2].fn # "none"
       /\ log[c][1].fn # log[c][2].fn

RECURSIVE Concat(_)
Concat(ss) == IF ss = <<>> THEN <<>> ELSE Head(ss) \o Concat(Tail(ss))

\* the texts passed to send on c so far, in the order of the calls
SendCalls(c) == Concat([i \in 1..Len(log[c]) |-> log[c][i].replies])

\* the stream the peer of c is to receive
Expected(c) == Concat(SendCalls(c))

\* C7: the stream the peer receives is the concatenation of the messages in
\* the order of the send calls, each message contiguous.  A token read from
\* released storage counts as matching here, so a violation is one of order.
C7_SendOrderPreserved ==
    \A c \in Conns :
       /\ Len(out[c]) <= Len(Expected(c))
       /\ \A i \in 1..Len(out[c]) : out[c][i] \in {Expected(c)[i], Junk}

\* C8: with two connections that each had a command handled, each peer
\* receives the responses to its own commands and nothing else.
C8_ConnectionsIsolated ==
    (\A c \in {1, 2} : Len(log[c]) >= 1) =>
       \A c \in {1, 2} : IsPrefix(out[c], Expected(c))

\* the last registration made under the name
LastReg(name) ==
    LET is == {i \in 1..Len(regs) : regs[i][1] = name}
    IN regs[CHOOSE i \in is : \A j \in is : j <= i][2]

\* C9: registration is last-write-wins: as long as the Server exists the
\* registry holds exactly the names registered so far, each mapped to the
\* handler of the latest add_handler call for it, and every dispatch invokes
\* that handler, never an earlier one.
C9_LastWriteWins ==
    /\ main_pc # "exited_ok" => DOMAIN handlers_ = {regs[i][1] : i \in 1..Len(regs)}
    /\ \A name \in DOMAIN handlers_ : handlers_[name] = LastReg(name)
    /\ \A c \in Conns : \A i \in Handled(c) :
          log[c][i].fn # "none" => log[c][i].fn = LastReg(parse_msg(log[c][i].msg).cmd)

\* the plugin registered login after the built-in, and a login line was
\* dispatched to the plugin's handler
C9_Witness ==
    /\ regs = << <<"login", "login_builtin">>, <<"login", "echo_fn">> >>
    /\ \E c \in Conns : \E i \in Handled(c) :
          parse_msg(log[c][i].msg).cmd = "login" /\ log[c][i].fn = "echo_fn"

\* C10: an unreachable Session Store reaches the login handler as a false
\* result: every dispatched login is answered with login: ok or login: fail,
\* and the server keeps running.
C10_StoreFailureIsLoginFail ==
    /\ \A c \in Conns : \A i \in Handled(c) :
          log[c][i].fn = "login_builtin" => log[c][i].replies \in {<<LoginOk>>, <<LoginFail>>}
    /\ (\E c \in Conns : log[c] # <<>>) => main_pc # "exited_fail"

\* the Listener has an accept outstanding: waiting in the reactor, or
\* completed and waiting to run
ListenerArmed == accepting \/ \E i \in 1..Len(ready) : ready[i].op = "accept"

\* C11: once the accept loop runs, nothing that happens while a connection
\* is served (an I/O error, a protocol error, an error raised by a handler)
\* ends run() with a failure or leaves the Listener without an accept.
C11_ConnectionFailureContained ==
    [][main_pc = "run" => (main_pc' # "exited_fail" /\ ListenerArmed')]_vars

\* the step runs the completion of a read or of a write of a connection
\* that ended with an I/O error
IoErrorStep ==
    /\ ReadDone \/ WriteSomeDone
    /\ Head(ready).ec # "ok"

\* what such a step does: the connection is closed and nothing of it is left
\* in the reactor; nothing is started again for it (the only completions it
\* adds are those of the operations the close cancelled, and after a read
\* error no read is outstanding); every other connection, the pending
\* accept and the other completions waiting to run are as before
C12_Step ==
    IoErrorStep =>
       LET c == Head(ready).c IN
       /\ sock'[c] = "closed" /\ ~reading'[c] /\ wq'[c] = <<>>
       /\ Len(ready') >= Len(ready) - 1
       /\ SubSeq(ready', 1, Len(ready) - 1) = Tail(ready)
       /\ \A i \in Len(ready)..Len(ready') : ready'[i].c = c /\ ready'[i].ec = "aborted"
       /\ Head(ready).op = "read" =>
             \A i \in 1..Len(ready') : ~(ready'[i].op = "read" /\ ready'[i].c = c)
       /\ \A d \in Conns \ {c} :
             /\ sock'[d] = sock[d] /\ reading'[d] = reading[d]
             /\ wq'[d] = wq[d] /\ buffer_'[d] = buffer_[d]
       /\ accepting' = accepting /\ main_pc' = main_pc

\* no operation of a closed socket waits in the reactor
C12_ClosedIdle == \A c \in Conns : sock[c] = "closed" => (~reading[c] /\ wq[c] = <<>>)

\* C12: an I/O error on a read or a write closes that connection and is not
\* retried: after a read error no read is armed, a write error closes the
\* socket and cancels its read; other connections and the pending accept
\* are left as they were.
C12_IoErrorClosesOnlyThat == []C12_ClosedIdle /\ [][C12_Step]_vars

\* a write error has closed the first connection and cancelled its waiting
\* read, with the second connection open
C12_Witness ==
    /\ sock[1] = "closed" /\ sock[2] = "open"
    /\ \E i \in 1..Len(ready) :
          ready[i].op = "read" /\ ready[i].c = 1 /\ ready[i].ec = "aborted"

\* the candidate module was loaded and its init raised
InitRaised == plugins # <<>> /\ plugins[1].create = "throws" /\ main_pc # "init_plugins"

\* C13: an error raised by a plugin's init during startup is caught: the
\* record is dropped and its module unloaded, the built-in handlers stay
\* registered and the server goes on to run the accept loop.
C13_PluginInitFailureContained ==
    InitRaised =>
       /\ main_pc # "exited_fail"
       /\ "login" \in DOMAIN handlers_
       /\ \A i \in DOMAIN plugins : dl[plugins[i].handle] = "closed"

\* load_plugins has returned and startup or the accept loop is under way
Loaded == main_pc \in {"init_plugins", "run", "unload"}

\* every record returned has a loaded handle and a factory, and no module
\* is open without a record (a module opened and skipped was closed again)
C14_Records ==
    Loaded =>
       /\ \A k \in DOMAIN plugins :
             /\ dl[plugins[k].handle] = "open"
             /\ plugins[k].create \notin {"noopen", "nosym"}
       /\ \A i \in DOMAIN dl : dl[i] = "open" => \E k \in DOMAIN plugins : plugins[k].handle = i

\* load_plugins returns to main, whatever the candidates turn out to be
C14_Step == main_pc = "load_plugins" => main_pc' = "init_plugins"

\* C14: load_plugins never aborts startup: a candidate that cannot be
\* opened or lacks create_plugin is skipped (and closed again if it was
\* opened), the result may be empty, and every record returned has a loaded
\* handle and a non-null factory.
C14_LoadNeverAborts == []C14_Records /\ [][C14_Step]_vars

\* a module without create_plugin was opened, closed again and skipped, and
\* the server runs with no plugin
C14_Witness == dl[1] = "closed" /\ plugins = <<>> /\ main_pc = "run"

\* unload_plugins has closed the module of a record
Unloaded == \E k \in DOMAIN plugins : dl[plugins[k].handle] = "closed"

\* C15: from the moment unload_plugins unloads a module until the Server is
\* destroyed, the registry holds no entry whose handler that module
\* registered.
C15_NoHandlerOfUnloadedModule ==
    Unloaded => \A name \in DOMAIN handlers_ : handlers_[name] \notin PluginFns

\* the step invokes a handler that a plugin registered
PluginHandlerInvoked ==
    \E c \in Conns :
       /\ Len(log'[c]) = Len(log[c]) + 1
       /\ log'[c][Len(log'[c])].fn \in PluginFns

\* a module is unloaded only with run() returned, and no step that ends
\* with a module unloaded invokes a plugin's handler
C16_Step ==
    /\ (~Unloaded /\ Unloaded') => main_pc = "unload"
    /\ Unloaded' => ~PluginHandlerInvoked

\* C16: unload_plugins runs only after run() has returned, and no handler a
\* plugin registered is invoked at or after the unload of its module.
C16_UnloadAfterRun == [][C16_Step]_vars

\* the module is unloaded after its handler was invoked and stopped the
\* io_context, while the read completion of a line of another connection
\* still waits to run
C16_Witness ==
    /\ Unloaded /\ main_pc = "unloaded"
    /\ \E c \in Conns : \E i \in Handled(c) : log[c][i].fn = "stop_fn"
    /\ \E i \in 1..Len(ready) : ready[i].op = "read" /\ ready[i].ec = "ok"

\* a Connection has been made
ConnectionExists == \E c \in Conns : sock[c] # "none"

\* add_handler is called only before any Connection exists and before any
\* completion has run, and no step of the accept loop changes the registry
C17_Step ==
    /\ regs' # regs => (~ConnectionExists /\ ready = <<>> /\ main_pc # "run")
    /\ main_pc = "run" => handlers_' = handlers_

\* C17: the registry is written only during startup: every add_handler call
\* happens before any Connection is accepted, although the first accept is
\* armed in the Server constructor, and nothing done once a Connection
\* exists changes the registry.
C17_RegistryWrittenAtStartup ==
    [](ConnectionExists => main_pc \notin {"register", "load_plugins", "init_plugins"})
    /\ [][C17_Step]_vars

\* the built-in and a plugin registered while the accept armed by the
\* constructor was waiting, and a connection accepted later had a line
\* dispatched to the plugin's handler
C17_Witness ==
    /\ Len(regs) = 2
    /\ \E c \in Conns : \E i \in Handled(c) : log[c][i].fn \in PluginFns

\* the shared owners of the Connection c: one per handler that captured
\* self, whether its operation waits in the reactor or its completion
\* waits to run
use_count(c) ==
    (IF reading[c] THEN 1 ELSE 0)
    + Cardinality({i \in 1..Len(ready) : ready[i].self = c})
    + Cardinality({i \in 1..Len(wq[c]) : wq[c][i].self = c})

\* an asynchronous operation on c is outstanding: a pending read, a posted
\* send, or a write in progress
Outstanding(c) ==
    \/ reading[c]
    \/ wq[c] # <<>>
    \/ \E i \in 1..Len(ready) : ready[i].c = c /\ ready[i].op # "accept"

Logins == {ci \in Conns \X (1..MaxLines) : ci[2] \in Handled(ci[1]) /\ log[ci[1]][ci[2]].fn = "login_builtin"}

\* C19: every dispatched login whose set returned is sent exactly one
\* reply: login: ok when set returned true, login: fail when it returned
\* false; and set returned true only when the store took the write.
C19_LoginReplyFollowsSet ==
    \A ci \in Logins :
       LET rec == log[ci[1]][ci[2]] IN
       rec.set # "none" =>
          /\ rec.replies = IF rec.set = "true" THEN <<LoginOk>> ELSE <<LoginFail>>
          /\ rec.set = "true" => (<<"sess:">> \o rec.payload) \in store

\* one connection logged in twice: the store rejected the first write and
\* accepted the second
C19_Witness ==
    \E c \in Conns :
       /\ Len(log[c]) = 2
       /\ log[c][1].fn = "login_builtin" /\ log[c][1].set = "false"
       /\ log[c][2].fn = "login_builtin" /\ log[c][2].set = "true"

\* the token member of a login line
TokenOf(msg) == StrOf(JsonParse(msg).m["token"])

\* C20: for a login line with token T accepted by the store, the key written
\* is sess: followed by T.
C20_KeyIsSessToken ==
    \A ci \in Logins :
       LET rec == log[ci[1]][ci[2]] IN
       (rec.set = "true" /\ "token" \in DOMAIN JsonParse(rec.msg).m) =>
          <<"sess:", TokenOf(rec.msg)>> \in store

\* the text t contains the text s
ContainsSeq(t, s) == \E i \in 1..(Len(t) - Len(s) + 1) : SubSeq(t, i, i + Len(s) - 1) = s

\* the msg member of an echo line
MsgOf(msg) == StrOf(JsonParse(msg).m["msg"])

\* C21: with the echo plugin's handler registered, a line with cmd echo and
\* msg hi is answered, on its connection, with a response that contains the
\* text echo: hi.
C21_EchoReplyHasMessage ==
    \A c \in Conns : \A i \in Handled(c) :
       (log[c][i].fn = "echo_fn" /\ "msg" \in DOMAIN JsonParse(log[c][i].msg).m) =>
          \E k \in 1..Len(log[c][i].replies) :
             ContainsSeq(log[c][i].replies[k], <<"echo: ", MsgOf(log[c][i].msg)>>)

\* the member lists of the objects a text of at most MaxRaw tokens can hold
MemberLists == UNION {[1..k -> Members] : k \in 0..((MaxRaw - 1) \div 2)}

\* the text, blanks aside, is an object made of the members ms
IsObjectOf(raw, ms) ==
    LET w == StripWs(raw) IN
    /\ Len(w) = (IF Len(ms) = 0 THEN 2 ELSE 2 * Len(ms) + 1)
    /\ w[1] = "{" /\ w[Len(w)] = "}"
    /\ \A i \in 1..Len(ms) : w[2 * i] = ms[i]
    /\ \A i \in 1..(Len(ms) - 1) : w[2 * i + 1] = ","

\* the member that gives the object its cmd: the last one with that key
IsCmdMember(ms, i) ==
    /\ KeyOf(ms[i]) = "cmd"
    /\ \A j \in (i + 1)..Len(ms) : KeyOf(ms[j]) # "cmd"

\* the raw text is a JSON object whose cmd field is the string v
IsCommandText(raw, v) ==
    \E ms \in MemberLists : \E i \in 1..Len(ms) :
       IsObjectOf(raw, ms) /\ IsCmdMember(ms, i) /\ IsString(ms[i]) /\ StrOf(ms[i]) = v

CmdValues == {"login", "echo", "nope"}

\* C22: parse_msg returns true exactly when the raw text is a JSON object
\* with a string-valued cmd field, and then cmd is that field's value; for
\* every other text (not JSON, JSON that is not an object, an object
\* without cmd, an object whose cmd is not a string) it returns false.
C22_ParseMsgDecides ==
    main_pc = "parse_done" =>
       LET raw == log[1][1].msg
           r == log[1][1].result
       IN /\ r.ok <=> \E v \in CmdValues : IsCommandText(raw, v)
          /\ r.ok => IsCommandText(raw, r.cmd)

\* parse_msg was given an object whose cmd is a number, and returned false
C22_Witness ==
    /\ main_pc = "parse_done"
    /\ log[1][1].msg = <<"{", "cmd:1", "}">>
    /\ ~log[1][1].result.ok

\* the step calls close() on a connection that is closed already: the
\* completion of an operation that failed or was cancelled
CloseAgainStep ==
    /\ IoErrorStep
    /\ sock[Head(ready).c] = "closed"

\* the step runs the lambda of a send on a connection that is closed
SendAfterCloseStep ==
    /\ PostedSend
    /\ sock[Head(ready).c] = "closed"

\* a repeated close changes nothing and raises nothing; a send after close
\* delivers nothing, raises nothing and leaves the server running: its
\* write completes with an error, which calls close once more
C23_Step ==
    /\ CloseAgainStep =>
          /\ ready' = Tail(ready)
          /\ sock' = sock /\ reading' = reading /\ wq' = wq /\ buffer_' = buffer_
          /\ out' = out /\ main_pc' = main_pc /\ accepting' = accepting
    /\ SendAfterCloseStep =>
          /\ out' = out /\ wq' = wq /\ sock' = sock
          /\ main_pc' = main_pc /\ accepting' = accepting
          /\ ready' = Append(Tail(ready),
                             Entry("wrote", Head(ready).c, "bad_descriptor", 0, Head(ready).msg, 0))

\* C23: close() may be called any number of times with the effect of one
\* call and never raises; a send issued after close delivers nothing to
\* the peer, raises nothing and does not stop the server.
C23_CloseIdempotent ==
    [](\A c \in Conns : sock[c] = "closed" => wq[c] = <<>>) /\ [][C23_Step]_vars

\* a send ran on a closed connection and its write failed; the server runs
C23_Witness ==
    /\ main_pc = "run"
    /\ \E i \in 1..Len(ready) :
          /\ ready[i].op = "wrote" /\ ready[i].ec = "bad_descriptor"
          /\ sock[ready[i].c] = "closed"

\* the accepts outstanding: waiting in the reactor, or completed and waiting
\* to run
AcceptEntries == {i \in 1..Len(ready) : ready[i].op = "accept"}

AcceptsOutstanding == (IF accepting THEN 1 ELSE 0) + Cardinality(AcceptEntries)

\* a successful accept makes the one Connection of its socket, which was not
\* there before, and starts it once: one read outstanding; a failed accept
\* makes none; each arms the next accept
C24_Step ==
    AcceptDone =>
       /\ accepting' /\ AcceptsOutstanding' = 1
       /\ \A c \in Conns :
             IF Head(ready).c = c /\ Head(ready).ec = "ok"
             THEN /\ sock[c] = "none" /\ sock'[c] = "open"
                  /\ ReadsOutstanding(c) = 0 /\ ReadsOutstanding(c)' = 1
                  /\ log'[c] = <<>> /\ buffer_'[c] = <<>>
             ELSE /\ sock'[c] = sock[c]
                  /\ ReadsOutstanding(c)' = ReadsOutstanding(c)

\* C24: every accept completion, successful or failed, arms the next accept,
\* so a running server has exactly one accept outstanding; a successful
\* accept makes exactly one Connection and starts it once, a failed accept
\* makes none.
C24_AcceptAlwaysRearmed ==
    [](main_pc = "run" => AcceptsOutstanding = 1) /\ [][C24_Step]_vars

\* an accept failed and its completion ran: the next accept is armed, and a
\* Connection was made by a successful accept
C24_Witness ==
    /\ main_pc = "run" /\ accepting
    /\ \E c \in Conns : peer[c] = "aborted" /\ sock[c] = "none"
    /\ \E c \in Conns : sock[c] = "open" /\ ReadArmed(c)

\* the accept errors after which another accept cannot succeed
Unrecoverable == {"no_descriptors"}

\* C25: an accept that fails with an unrecoverable error ends the accept
\* loop: its completion arms no further accept.
C25_UnrecoverableAcceptEndsLoop ==
    [][(AcceptDone /\ Head(ready).ec \in Unrecoverable) => ~ListenerArmed']_vars

\* C26: text a peer sent after its last newline before closing is
\* discarded: there are no more read completions than lines, and no text
\* handed to the decoder, and so to a handler or answered with an error,
\* reaches beyond a newline into that text.
C26_UnterminatedDiscarded ==
    \A c \in Conns :
       sentTail[c] # <<>> =>
          /\ Len(log[c]) <= Len(sentLines[c])
          /\ \A i \in Handled(c) :
                /\ log[c][i].msg[Len(log[c][i].msg)] = NL
                /\ log[c][i].fn # "none" => Registered(c, i)

\* the configuration file cannot be opened, is not JSON, or has no host or
\* no port, or its host is no address
BadConfiguration ==
    \/ file.kind \in {"unopenable", "not_json"}
    \/ /\ file.kind = "json"
       /\ \/ "host" \notin DOMAIN file.j
          \/ "port" \notin DOMAIN file.j
          \/ file.j["host"] # <<"0.0.0.0">>

\* startup has failed on the configuration or on the bind
StartupFailed == BadConfiguration \/ acceptor_.state = "bind_failed"

\* nothing was accepted, no accept armed, and nothing registered or loaded
NothingStarted ==
    /\ ~accepting /\ ready = <<>>
    /\ \A c \in Conns : sock[c] = "none"
    /\ regs = <<>> /\ handlers_ = <<>> /\ plugins = <<>>
    /\ \A i \in 1..Len(Files) : dl[i] = "unopened"

\* C27: with a configuration file that cannot be opened, is not JSON or
\* lacks host or port, or with a bind address that is invalid or cannot be
\* reserved, main goes no further than the construction of the Server and
\* returns EXIT_FAILURE from there, with no connection accepted and no
\* plugin initialized.
C27_ConfigurationFailureFatal ==
    /\ [](StartupFailed => (main_pc \in {"construct", "exited_fail"} /\ NothingStarted))
    /\ [][(main_pc = "construct" /\ BadConfiguration) => main_pc' = "exited_fail"]_vars
    /\ [][(main_pc = "load_config" /\ BadConfiguration' /\ file'.kind # "json")
             => main_pc' = "exited_fail"]_vars

\* main has returned EXIT_FAILURE for a configuration whose host is no
\* address
C27_Witness ==
    /\ main_pc = "exited_fail"
    /\ file.kind = "json" /\ DOMAIN file.j = {"host", "port"}
    /\ file.j["host"] = <<"nowhere">>

\* the text is a decimal number, with or without a sign
IsNumeral(t) ==
    /\ t # <<>>
    /\ LET body == IF t[1] = "-" THEN Tail(t) ELSE t
       IN body # <<>> /\ \A i \in 1..Len(body) : body[i] \in Digits

\* the number it denotes
NumeralValue(t) == IF t[1] = "-" THEN 0 - Decimal(Tail(t)) ELSE Decimal(t)

\* C28: the acceptor is bound to the configured port and to no other: a
\* configured number in 0..65535 is the port of the endpoint, and with a
\* number outside 0..65535 no acceptor is constructed and main returns
\* EXIT_FAILURE.
C28_BindsConfiguredPort ==
    (file.kind = "json" /\ "port" \in DOMAIN file.j /\ IsNumeral(file.j["port"])) =>
       LET p == NumeralValue(file.j["port"])
       IN IF p \in 0..65535
          THEN acceptor_.state # "none" => acceptor_.port = p
          ELSE acceptor_.state = "none" /\ main_pc \in {"construct", "exited_fail"}

\* C29: no handler is invoked for a connection that has been closed, also
\* when a successful read completion of it was queued before the close: a
\* read completion that runs on a closed connection dispatches nothing.
C29_NoHandlerAfterClose ==
    [][\A c \in Conns :
          (ReadDone /\ Head(ready).c = c /\ sock[c] = "closed" /\ Len(log'[c]) > Len(log[c]))
             => log'[c][Len(log'[c])].fn = "none"]_vars

\* C30: the text given to send stays valid until its write has completed,
\* also when the write goes on after the posted lambda has returned: no
\* token a peer receives was read from released storage.
C30_MessageBytesValid ==
    \A c \in Conns : \A i \in 1..Len(out[c]) : out[c][i] # Junk

\* the step runs a completion of connection c with the given operation
Completes(op, c) == ready # <<>> /\ Head(ready).op = op /\ Head(ready).c = c

\* reads are armed by start, in the completion of a successful accept, and
\* at the end of a successful read completion, behind what the handler
\* posted; a failed read completion arms none
C31_Step ==
    \A c \in Conns :
       /\ ReadsOutstanding(c)' > ReadsOutstanding(c) =>
             (AcceptDone /\ Completes("accept", c) /\ Head(ready).ec = "ok")
       /\ (ReadDone /\ Completes("read", c) /\ main_pc' # "exited_fail") =>
             IF Head(ready).ec = "ok"
             THEN /\ ReadsOutstanding(c)' = 1
                  /\ Len(log'[c]) = Len(log[c]) + 1
                  /\ \A i \in 1..Len(ready') :
                        (ready'[i].op = "read" /\ ready'[i].c = c) => i = Len(ready')
             ELSE ReadsOutstanding(c)' = 0 /\ log'[c] = log[c]

\* C31: a connection has at most one read outstanding, and exactly one
\* while it is open and the process runs: start arms the first read, and
\* the next read is armed only at the end of a successful read completion,
\* after the line has been handled.
C31_OneReadOutstanding ==
    /\ [](\A c \in Conns :
            /\ ReadsOutstanding(c) <= 1
            /\ (sock[c] = "open" /\ main_pc # "exited_fail") => ReadsOutstanding(c) = 1)
    /\ [][C31_Step]_vars

\* an open connection has handled a line with a handler and has its next
\* read waiting for input
C31_Witness ==
    \E c \in Conns :
       /\ sock[c] = "open" /\ reading[c] /\ ReadEntries(c) = {}
       /\ Len(log[c]) >= 1 /\ log[c][Len(log[c])].fn = "echo_fn"

\* a failed read completion closes the socket and arms no read; nothing
\* takes a new owner of a closed connection that has none left
C32_Step ==
    \A c \in Conns :
       /\ (ReadDone /\ Completes("read", c) /\ Head(ready).ec # "ok") =>
             (sock'[c] = "closed" /\ ReadsOutstanding(c)' = 0)
       /\ (sock[c] = "closed" /\ use_count(c) = 0) => use_count(c)' = 0

\* C32: a closed connection is eventually destroyed: a failed read closes
\* the socket and arms no read, and once the completions still queued for
\* the connection have run nothing owns it; it stays unowned from then on.
\* A process that is returning EXIT_FAILURE runs no completion any more.
C32_ClosedEventuallyDestroyed ==
    /\ [][C32_Step]_vars
    /\ \A c \in Conns :
          (sock[c] = "closed") ~> (use_count(c) = 0 \/ main_pc = "exited_fail")

\* a connection that answered a line and was closed is owned by nothing,
\* with the server running
C32_Witness ==
    \E c \in Conns :
       /\ main_pc = "run"
       /\ sock[c] = "closed" /\ use_count(c) = 0
       /\ Len(log[c]) >= 1 /\ log[c][1].replies # <<>>

\* the members of a text that count: of the members with one key, the last
EffectiveMembers(raw) ==
    {raw[i] : i \in {k \in 1..Len(raw) :
                       /\ raw[k] \in Members
                       /\ \A j \in (k + 1)..Len(raw) :
                             raw[j] \in Members => KeyOf(raw[j]) # KeyOf(raw[k])}}

\* the members of a text, each counted as often as it occurs
MemberPositions(t) == {i \in 1..Len(t) : t[i] \in Members}

\* C33: when parse_msg succeeds, its payload is a serialization of the
\* whole envelope: it decodes to the object the raw text decodes to, with
\* every member that counts, cmd included, once and no other, and parse_msg
\* of the payload succeeds with the same cmd and the same payload.
C33_PayloadIsEnvelope ==
    (main_pc = "parse_done" /\ log[1][1].result.ok) =>
       LET raw == log[1][1].msg
           r == log[1][1].result
       IN /\ JsonParse(r.payload) = JsonParse(raw)
          /\ JsonParse(r.payload).kind = "object"
          /\ {r.payload[i] : i \in MemberPositions(r.payload)} = EffectiveMembers(raw)
          /\ Cardinality(MemberPositions(r.payload)) = Cardinality(EffectiveMembers(raw))
          /\ \E i \in MemberPositions(r.payload) : KeyOf(r.payload[i]) = "cmd"
          /\ parse_msg(r.payload) = r

\* parse_msg succeeded on an envelope with cmd as its last member: the
\* payload is another text, with cmd first
C33_Witness ==
    /\ main_pc = "parse_done"
    /\ log[1][1].msg = <<"{", "msg:hi", ",", "cmd:login", "}">>
    /\ log[1][1].result.ok
    /\ log[1][1].result.payload = <<"{", "cmd:login", ",", "msg:hi", "}">>

====
